---- MODULE Spec2Model ----
(***************************************************************************)
(* A model of the hierarchical Classifier (a prefix tree whose nodes hold  *)
(* a SortedArray of child keys, a key -> child map, two occurrence         *)
(* counters and an equivalence class of values), together with the         *)
(* SortedArray and ArrayQueue containers it is built from.                 *)
(*                                                                         *)
(* Nodes live in a heap `nodes`, a function from node references to node   *)
(* records. A node's reference is the key path it was created under; a     *)
(* node never changes place while attached, and a detached node is         *)
(* dropped from the heap once the operation that detached it returns.      *)
(* Array indices are 0-based as in the source: array[i] is items[i + 1].   *)
(***************************************************************************)
EXTENDS Integers, Sequences, FiniteSets, TLC

\* ------------------------------------------------------------------ bounds
MaxKey == 2
MaxDepth == 2
MaxItem == 2
MaxTotal == 2
MaxHeld == 2
MaxTimes == 2
MaxElem == 4
MaxSet == 3
MaxLen == 3

\* --------------------------------------------------------------- constants
Undefined == 0
Infinity == 1000000

Keys == 1..MaxKey
Items == 1..MaxItem
Paths == UNION {[1..n -> Keys] : n \in 0..MaxDepth}
Queries == UNION {[1..n -> Keys \cup {Undefined}] : n \in 0..MaxDepth}
Root == <<>>

\* ------------------------------------------------------------- comparators
ASCENDING(a, b) ==
    IF a # Undefined /\ b # Undefined /\ a < b THEN -1
    ELSE IF a = b THEN 0 ELSE 1

DESCENDING(a, b) ==
    IF a # Undefined /\ b # Undefined /\ a < b THEN 1
    ELSE IF a = b THEN 0 ELSE -1

SINGULAR(a, b) == 0

\* A comparator is carried by name; comparator(c, a, b) calls it.
comparator(c, a, b) ==
    CASE c = "ASCENDING" -> ASCENDING(a, b)
      [] c = "DESCENDING" -> DESCENDING(a, b)
      [] c = "SINGULAR" -> SINGULAR(a, b)

\* typeof(itemComparator) === 'function'
IsFunction(c) == c \in {"ASCENDING", "DESCENDING", "SINGULAR"}

\* SORTER.UNIFORM(keyComparator, valueComparatorOrFlag)
UNIFORM(keyComparator, valueComparatorOrFlag) ==
    <<keyComparator, valueComparatorOrFlag>>

\* array[depth] ?? array[array.length - 1]
AtDepth(array, depth) ==
    IF depth + 1 <= Len(array) THEN array[depth + 1] ELSE array[Len(array)]

\* SORTER.BY_DEPTH(keyComparators, valueComparatorsOrFlags), both given as
\* arrays (a single entry is upgraded to an array of one): the pair chosen
\* for each depth
BY_DEPTH(keyComparators, valueComparatorsOrFlags) ==
    [depth \in 0..MaxDepth |-> <<AtDepth(keyComparators, depth),
                                 AtDepth(valueComparatorsOrFlags, depth)>>]

\* sorter(node): a uniform sorter is its pair, a sorter by depth is read at
\* the depth of the node
sorterOf(sorter, depth) ==
    IF 0 \in DOMAIN sorter THEN sorter[depth] ELSE sorter

\* ---------------------------------------------------------------- arrays
Reverse(s) == [i \in 1..Len(s) |-> s[Len(s) + 1 - i]]

\* Array.prototype.splice(index, 0, item)
SpliceIn(s, index, item) ==
    SubSeq(s, 1, index) \o <<item>> \o SubSeq(s, index + 1, Len(s))

\* Array.prototype.splice(index, 1)
SpliceOut(s, index) ==
    SubSeq(s, 1, index) \o SubSeq(s, index + 2, Len(s))

RECURSIVE Flatten(_)
Flatten(ss) == IF ss = <<>> THEN <<>> ELSE Head(ss) \o Flatten(Tail(ss))

Range(s) == {s[i] : i \in DOMAIN s}

\* ------------------------------------------------------------ SortedArray
RECURSIVE logSearch(_, _, _, _, _)

\* logSearch returning the start of the range with the element it found
logSearch_FromStart(item, array, c, start, end) ==
    IF start < end
    THEN LET mid == (start + end) \div 2
             cmp == comparator(c, array[mid + 1], item)
         IN  IF cmp = 0 THEN <<start, array[mid + 1]>>
             ELSE IF cmp < 0 THEN logSearch(item, array, c, mid + 1, end)
             ELSE logSearch(item, array, c, start, mid)
    ELSE <<start, Undefined>>

\* logSearch calling comparator(item, array[mid])
logSearch_Swapped(item, array, c, start, end) ==
    IF start < end
    THEN LET mid == (start + end) \div 2
             cmp == comparator(c, item, array[mid + 1])
         IN  IF cmp = 0 THEN <<mid, array[mid + 1]>>
             ELSE IF cmp < 0 THEN logSearch(item, array, c, mid + 1, end)
             ELSE logSearch(item, array, c, start, mid)
    ELSE <<start, Undefined>>

logSearch(item, array, c, start, end) ==
    IF start < end
    THEN LET mid == (start + end) \div 2
             cmp == comparator(c, array[mid + 1], item)
         IN  IF cmp = 0 THEN <<mid, array[mid + 1]>>
             ELSE IF cmp < 0 THEN logSearch(item, array, c, mid + 1, end)
             ELSE logSearch(item, array, c, start, mid)
    ELSE <<start, Undefined>>

\* A SortedArray is [comparator, items]; each operation gives the array after
\* the call (q) and the call's return value (ret).
SortedArray(c) == [comparator |-> c, items |-> <<>>]

\* add that pushes the item at the end of the array
SortedArrayAdd_Push(q, item) ==
    LET r == logSearch(item, q.items, q.comparator, 0, Len(q.items))
    IN  IF r[2] = Undefined
        THEN [q |-> [q EXCEPT !.items = Append(@, item)], ret |-> TRUE]
        ELSE [q |-> q, ret |-> FALSE]

SortedArrayAdd(q, item) ==
    LET r == logSearch(item, q.items, q.comparator, 0, Len(q.items))
    IN  IF r[2] = Undefined
        THEN [q |-> [q EXCEPT !.items = SpliceIn(@, r[1], item)], ret |-> TRUE]
        ELSE [q |-> q, ret |-> FALSE]

\* remove that never deletes
SortedArrayRemove_Never(q, item) == [q |-> q, ret |-> FALSE]

\* remove that deletes the last item of the array when an equal one is found
SortedArrayRemove_Pop(q, item) ==
    LET r == logSearch(item, q.items, q.comparator, 0, Len(q.items))
    IN  IF r[2] # Undefined
        THEN [q |-> [q EXCEPT !.items = SubSeq(@, 1, Len(@) - 1)], ret |-> TRUE]
        ELSE [q |-> q, ret |-> FALSE]

SortedArrayRemove(q, item) ==
    LET r == logSearch(item, q.items, q.comparator, 0, Len(q.items))
    IN  IF r[2] # Undefined
        THEN [q |-> [q EXCEPT !.items = SpliceOut(@, r[1])], ret |-> TRUE]
        ELSE [q |-> q, ret |-> FALSE]

SortedArrayHas(q, item) ==
    logSearch(item, q.items, q.comparator, 0, Len(q.items))[2] # Undefined

\* Collection.update(oldItem, newItem, upsert) as a SortedArray inherits it:
\* has(oldItem) ? remove(oldItem) && add(newItem) : upsert ? add(newItem) : false
CollectionUpdate(q, oldItem, newItem, upsert) ==
    IF SortedArrayHas(q, oldItem)
    THEN LET removed == SortedArrayRemove(q, oldItem)
         IN  IF removed.ret THEN SortedArrayAdd(removed.q, newItem)
             ELSE [q |-> removed.q, ret |-> FALSE]
    ELSE IF upsert THEN SortedArrayAdd(q, newItem)
    ELSE [q |-> q, ret |-> FALSE]

\* new SortedArray(comparator, items): each item of the list is added in turn
RECURSIVE SortedArrayFrom(_, _)
SortedArrayFrom(c, items) ==
    IF items = <<>> THEN SortedArray(c)
    ELSE SortedArrayAdd(SortedArrayFrom(c, SubSeq(items, 1, Len(items) - 1)),
                        items[Len(items)]).q

\* ------------------------------------------------------------- ArrayQueue
\* new ArrayQueue(fifo): an undefined flag takes the default, fifo = true.
ArrayQueue(flag) ==
    [comparator |-> "INSERTION",
     fifo |-> IF flag = "false" THEN FALSE ELSE TRUE,
     items |-> <<>>]

\* add that puts the item in front of the others
ArrayQueueAdd_Unshift(q, item) ==
    [q |-> [q EXCEPT !.items = <<item>> \o @], ret |-> TRUE]

ArrayQueueAdd(q, item) ==
    [q |-> [q EXCEPT !.items = Append(@, item)], ret |-> TRUE]

\* new ArrayQueue(fifo, items): the queue takes the array it is given
ArrayQueueFrom(flag, items) == [ArrayQueue(flag) EXCEPT !.items = items]

ArrayQueueHas(q, item) == FALSE

\* remove that deletes the items identical to the given one
ArrayQueueRemove_ByValue(q, item) ==
    [q |-> [q EXCEPT !.items = SelectSeq(@, LAMBDA v : v # item)],
     ret |-> item \in Range(q.items)]

ArrayQueueRemove(q, item) == [q |-> q, ret |-> FALSE]

\* index(first): the array index of the first or last item
ArrayQueueIndex(q, first) ==
    IF q.fifo THEN (IF first THEN 0 ELSE Len(q.items) - 1)
    ELSE (IF first THEN Len(q.items) - 1 ELSE 0)

\* items[index]: undefined when the index is not one of the array
ArrayQueuePeek(q, first) ==
    LET i == ArrayQueueIndex(q, first)
    IN  IF i >= 0 /\ i < Len(q.items) THEN q.items[i + 1] ELSE Undefined

\* poll that takes the item at the other end of the array
ArrayQueuePoll_OtherEnd(q, first) ==
    LET i == ArrayQueueIndex(q, first)
    IN  IF q.items = <<>> THEN [q |-> q, ret |-> Undefined]
        ELSE IF i # 0
        THEN [q |-> [q EXCEPT !.items = Tail(@)], ret |-> Head(q.items)]
        ELSE [q |-> [q EXCEPT !.items = SubSeq(@, 1, Len(@) - 1)],
              ret |-> q.items[Len(q.items)]]

\* poll: index === 0 ? items.shift() : items.pop(); both give undefined on
\* an empty array
ArrayQueuePoll(q, first) ==
    LET i == ArrayQueueIndex(q, first)
    IN  IF q.items = <<>> THEN [q |-> q, ret |-> Undefined]
        ELSE IF i = 0
        THEN [q |-> [q EXCEPT !.items = Tail(@)], ret |-> Head(q.items)]
        ELSE [q |-> [q EXCEPT !.items = SubSeq(@, 1, Len(@) - 1)],
              ret |-> q.items[Len(q.items)]]

\* iterating the view of reverse(): from the last index of the array, as it
\* is when the view is iterated, down to 0
ArrayQueueReverse(q) == Reverse(q.items)

\* a view that yields the items the array held when reverse() was called
ArrayQueueReverseView_Snapshot(q, made) == Reverse(SubSeq(q.items, 1, made[1]))

\* the view made by reverse() when the array held made[1] items, iterated on
\* the queue q: it reads the array of q, not what it was
ArrayQueueReverseView(q, made) == ArrayQueueReverse(q)

\* the while loop of Queue.select: keep is n, got[i] is 0-based
RECURSIVE selectLoop(_, _, _, _, _)
selectLoop(q, keep, first, got, i) ==
    IF Len(q.items) > keep
    THEN LET p == ArrayQueuePoll(q, ~first)
         IN  selectLoop(p.q, keep, first, [got EXCEPT ![i + 1] = p.ret],
                        IF first THEN i - 1 ELSE i + 1)
    ELSE [q |-> q, ret |-> got]

\* select that polls from the end it should keep
select_SameEnd(q, keep0, first) ==
    LET keep == IF keep0 < 0 THEN 0 ELSE keep0
        m == Len(q.items) - keep
        got == [k \in 1..(IF m < 0 THEN 0 ELSE m) |-> Undefined]
    IN  selectLoop(q, keep, ~first, got, IF ~first THEN Len(got) - 1 ELSE 0)

\* Queue.select(n, first), inherited by ArrayQueue and SortedArray
select(q, keep0, first) ==
    LET keep == IF keep0 < 0 THEN 0 ELSE keep0
        m == Len(q.items) - keep
        got == [k \in 1..(IF m < 0 THEN 0 ELSE m) |-> Undefined]
    IN  selectLoop(q, keep, first, got, IF first THEN Len(got) - 1 ELSE 0)

\* queue.has(item), queue.remove(item): a SortedArray overrides them
QueueHas(q, item) ==
    IF IsFunction(q.comparator) THEN SortedArrayHas(q, item)
    ELSE ArrayQueueHas(q, item)

QueueRemove(q, item) ==
    IF IsFunction(q.comparator) THEN SortedArrayRemove(q, item)
    ELSE ArrayQueueRemove(q, item)

\* node.class.add(item): the class is a SortedArray or an ArrayQueue.
ClassAdd(q, item) ==
    IF IsFunction(q.comparator) THEN SortedArrayAdd(q, item)
    ELSE ArrayQueueAdd(q, item)

\* ------------------------------------------------------------- Classifier
\* new Classifier(sorter, parent, key); parent is <<>> (null) or <<ref>>.
Classifier(sorter, parent, key, parentDepth) ==
    [parent |-> parent,
     key |-> key,
     depth |-> parentDepth + 1,
     nin |-> 0,
     nout |-> 0,
     sortedKeys |-> SortedArray(sorterOf(sorter, parentDepth + 1)[1]),
     keyToChild |-> <<>>,
     class |-> IF IsFunction(sorterOf(sorter, parentDepth + 1)[2])
               THEN SortedArray(sorterOf(sorter, parentDepth + 1)[2]) @@ [fifo |-> TRUE]
               ELSE ArrayQueue(sorterOf(sorter, parentDepth + 1)[2])]

MapDelete(m, key) == [k \in DOMAIN m \ {key} |-> m[k]]

\* getChild gives the heap after the call (h) and the child found or created
\* (node: <<>> for undefined, <<ref>> otherwise).
getChild(h, sorter, id, key, creating) ==
    IF key \in DOMAIN h[id].keyToChild
    THEN [h |-> h, node |-> <<h[id].keyToChild[key]>>]
    ELSE IF creating
    THEN LET cid == Append(id, key)
             child == Classifier(sorter, <<id>>, key, h[id].depth)
             h1 == [h EXCEPT ![id].keyToChild = @ @@ (key :> cid),
                             ![id].sortedKeys = SortedArrayAdd(@, key).q]
         IN  [h |-> (cid :> child) @@ h1, node |-> <<cid>>]
    ELSE [h |-> h, node |-> <<>>]

RECURSIVE withFrom(_, _, _, _, _, _)
withFrom(h, sorter, id, keys, i, creating) ==
    IF i > Len(keys) THEN [h |-> h, node |-> <<id>>]
    ELSE LET g == getChild(h, sorter, id, keys[i], creating)
         IN  IF g.node = <<>> THEN [h |-> g.h, node |-> <<>>]
             ELSE withFrom(g.h, sorter, g.node[1], keys, i + 1, creating)

\* with, creating the missing nodes whatever the caller asked
with_Creating(h, sorter, id, keys, creating) == withFrom(h, sorter, id, keys, 1, TRUE)

with(h, sorter, id, keys, creating) == withFrom(h, sorter, id, keys, 1, creating)

RECURSIVE incrementAncestors(_, _, _)
incrementAncestors(h, parent, value) ==
    IF parent = <<>> THEN h
    ELSE incrementAncestors([h EXCEPT ![parent[1]].nout = @ + value],
                            h[parent[1]].parent, value)

\* increment that stops at the direct parent
increment_ParentOnly(h, id, value) ==
    LET h1 == [h EXCEPT ![id].nin = @ + value]
    IN  IF h[id].parent = <<>> THEN h1
        ELSE [h1 EXCEPT ![h[id].parent[1]].nout = @ + value]

increment(h, id, value) ==
    incrementAncestors([h EXCEPT ![id].nin = @ + value], h[id].parent, value)

RECURSIVE pruneIfEmpty(_, _)

\* pruneIfEmpty that leaves the pruned key in the parent's sortedKeys
pruneIfEmpty_KeepsSortedKey(h, id) ==
    IF h[id].parent # <<>> /\ h[id].nin = 0 /\ h[id].nout = 0
    THEN LET parent == h[id].parent[1]
             h1 == [h EXCEPT
                      ![parent].keyToChild = MapDelete(@, h[id].key),
                      ![id].parent = <<>>,
                      ![id].depth = 0]
         IN  pruneIfEmpty(h1, parent)
    ELSE h

\* pruneIfEmpty that leaves the parent and the depth of the pruned node set
pruneIfEmpty_KeepsParent(h, id) ==
    IF h[id].parent # <<>> /\ h[id].nin = 0 /\ h[id].nout = 0
    THEN LET parent == h[id].parent[1]
             h1 == [h EXCEPT
                      ![parent].keyToChild = MapDelete(@, h[id].key),
                      ![parent].sortedKeys = SortedArrayRemove(@, h[id].key).q]
         IN  pruneIfEmpty(h1, parent)
    ELSE h

pruneIfEmpty(h, id) ==
    IF h[id].parent # <<>> /\ h[id].nin = 0 /\ h[id].nout = 0
    THEN LET parent == h[id].parent[1]
             h1 == [h EXCEPT
                      ![parent].keyToChild = MapDelete(@, h[id].key),
                      ![parent].sortedKeys = SortedArrayRemove(@, h[id].key).q,
                      ![id].parent = <<>>,
                      ![id].depth = 0]
         IN  pruneIfEmpty(h1, parent)
    ELSE h

n(h, id) == h[id].nin + h[id].nout

\* Math.min giving the larger of the two
MathMin_Larger(a, b) == IF a < b THEN b ELSE a

MathMin(a, b) == IF a < b THEN a ELSE b

\* has that tests the subtree count n() instead of nin
has_SubtreeCount(h, sorter, id, keys) ==
    LET w == with(h, sorter, id, keys, FALSE)
    IN  w.node # <<>> /\ n(h, w.node[1]) > 0

has(h, sorter, id, keys) ==
    LET w == with(h, sorter, id, keys, FALSE)
    IN  w.node # <<>> /\ h[w.node[1]].nin > 0

\* add that counts a single occurrence whatever xTimes is
add_CountOne(h, sorter, id, keys, item, xTimes) ==
    LET w == with(h, sorter, id, keys, xTimes > 0)
    IN  IF w.node = <<>> THEN [h |-> w.h, ret |-> FALSE]
        ELSE LET node == w.node[1]
                 got == ClassAdd(w.h[node].class, item)
                 h1 == [w.h EXCEPT ![node].class = got.q]
                 h2 == increment(h1, node, 1)
             IN  [h |-> pruneIfEmpty(h2, node), ret |-> got.ret]

\* add that raises the counters only when the class took the item
add_CountsOnlyNew(h, sorter, id, keys, item, xTimes) ==
    LET w == with(h, sorter, id, keys, xTimes > 0)
    IN  IF w.node = <<>> THEN [h |-> w.h, ret |-> FALSE]
        ELSE LET node == w.node[1]
                 got == ClassAdd(w.h[node].class, item)
                 h1 == [w.h EXCEPT ![node].class = got.q]
                 h2 == IF got.ret THEN increment(h1, node, xTimes) ELSE h1
             IN  [h |-> pruneIfEmpty(h2, node), ret |-> got.ret]

add(h, sorter, id, keys, item, xTimes) ==
    LET w == with(h, sorter, id, keys, xTimes > 0)
    IN  IF w.node = <<>> THEN [h |-> w.h, ret |-> FALSE]
        ELSE LET node == w.node[1]
                 got == ClassAdd(w.h[node].class, item)
                 h1 == [w.h EXCEPT ![node].class = got.q]
                 h2 == increment(h1, node, xTimes)
             IN  [h |-> pruneIfEmpty(h2, node), ret |-> got.ret]

\* remove that subtracts xTimes without capping it at nin
remove_Uncapped(h, sorter, id, keys, xTimes) ==
    LET w == with(h, sorter, id, keys, FALSE)
    IN  IF w.node = <<>> THEN [h |-> w.h, ret |-> FALSE]
        ELSE LET node == w.node[1]
                 h1 == increment(w.h, node, 0 - xTimes)
             IN  [h |-> pruneIfEmpty(h1, node), ret |-> TRUE]

remove(h, sorter, id, keys, xTimes) ==
    LET w == with(h, sorter, id, keys, FALSE)
    IN  IF w.node = <<>> THEN [h |-> w.h, ret |-> FALSE]
        ELSE LET node == w.node[1]
                 h1 == increment(w.h, node, 0 - MathMin(xTimes, w.h[node].nin))
             IN  [h |-> pruneIfEmpty(h1, node), ret |-> TRUE]

\* ---------------------------------------------------------------- traversal
RECURSIVE descendants(_, _, _, _, _)
RECURSIVE descendantsOf(_, _, _, _, _, _, _)

\* the loop of descendants yielding a child after its own descendants
descendantsOf_PostOrder(h, id, keys, i, query, first, index) ==
    IF i > Len(keys) THEN <<>>
    ELSE LET key == keys[i]
             matchKey == IF index < Len(query) THEN query[index + 1] ELSE Undefined
             rest == descendantsOf(h, id, keys, i + 1, query, first, index)
         IN  IF matchKey # Undefined /\ key # matchKey THEN rest
             ELSE IF key \notin DOMAIN h[id].keyToChild THEN rest
             ELSE LET child == h[id].keyToChild[key]
                  IN  descendants(h, child, query, first, index + 1)
                         \o <<child>> \o rest

\* the for loop of descendants over keys[i..], yielding node references
descendantsOf(h, id, keys, i, query, first, index) ==
    IF i > Len(keys) THEN <<>>
    ELSE LET key == keys[i]
             matchKey == IF index < Len(query) THEN query[index + 1] ELSE Undefined
             rest == descendantsOf(h, id, keys, i + 1, query, first, index)
         IN  IF matchKey # Undefined /\ key # matchKey THEN rest
             ELSE IF key \notin DOMAIN h[id].keyToChild THEN rest
             ELSE LET child == h[id].keyToChild[key]
                  IN  <<child>> \o descendants(h, child, query, first, index + 1)
                                \o rest

descendants(h, id, query, first, index) ==
    LET keys == IF first THEN h[id].sortedKeys.items
                ELSE Reverse(h[id].sortedKeys.items)
    IN  descendantsOf(h, id, keys, 1, query, first, index)

\* descendants(): if (!child) continue; a sorted key without a child is
\* passed over before the child is used
SkipsMissingChild == TRUE

\* the sorted keys of the node that have no child in keyToChild
DanglingKeys(h, id) ==
    {k \in Range(h[id].sortedKeys.items) : k \notin DOMAIN h[id].keyToChild}

\* the traversal from the node raises an error: it would on using a missing
\* child, at the node itself or at a descendant it visits
descendantsRaises(h, id, query, first) ==
    /\ ~SkipsMissingChild
    /\ \E d \in {id} \cup Range(descendants(h, id, query, first, 0)) :
          DanglingKeys(h, d) # {}

\* get: the classes of the matching descendants, flattened
get(h, id, query, first) ==
    LET ds == descendants(h, id, query, first, 0)
    IN  Flatten([i \in 1..Len(ds) |->
                   IF first THEN h[ds[i]].class.items
                   ELSE Reverse(h[ds[i]].class.items)])

\* values(): for each descendant, each item of its class
values(h, id) ==
    LET ds == descendants(h, id, <<>>, TRUE, 0)
    IN  Flatten([i \in 1..Len(ds) |-> h[ds[i]].class.items])

\* node.path() read as keys: the keys from the root (excluded) to the node
RECURSIVE path(_, _)
path(h, id) ==
    IF h[id].parent = <<>> THEN <<>>
    ELSE Append(path(h, h[id].parent[1]), h[id].key)

\* Each.what(): the first element of the iteration, or undefined
what(s) == IF s = <<>> THEN Undefined ELSE Head(s)

peek(h, id, first) == what(get(h, id, <<>>, first))

\* keys(): for each descendant with nin > 0, its key path (keys names
\* the arguments of the calls here, so the operator is keyPaths)
keyPaths(h, id) ==
    LET ds == descendants(h, id, <<>>, TRUE, 0)
        counted == SelectSeq(ds, LAMBDA d : h[d].nin > 0)
    IN  [i \in 1..Len(counted) |-> path(h, counted[i])]

\* entries(): for each descendant with nin > 0, a pair per item of its class
entries(h, id) ==
    LET ds == descendants(h, id, <<>>, TRUE, 0)
    IN  Flatten([i \in 1..Len(ds) |->
                   IF h[ds[i]].nin <= 0 THEN <<>>
                   ELSE [j \in 1..Len(h[ds[i]].class.items) |->
                           <<path(h, ds[i]), h[ds[i]].class.items[j]>>]])

\* ArrayQueue.clear(), inherited by SortedArray: items.length = 0
ArrayQueueClear(q) == [q EXCEPT !.items = <<>>]

\* clear that leaves the children attached
clear_KeepsChildren(h, id) ==
    LET h1 == [h EXCEPT ![id].nin = 0,
                        ![id].nout = 0,
                        ![id].class = ArrayQueueClear(@)]
    IN  pruneIfEmpty(h1, id)

clear(h, id) ==
    LET h1 == [h EXCEPT ![id].nin = 0,
                        ![id].nout = 0,
                        ![id].sortedKeys = ArrayQueueClear(@),
                        ![id].keyToChild = <<>>,
                        ![id].class = ArrayQueueClear(@)]
    IN  pruneIfEmpty(h1, id)

\* ---------------------------------------------------------------- TrueSet
\* The items given to a TrueSet, and the representation function it is
\* constructed with: items that differ by a multiple of MaxKey share a key.
TrueSetItems == 1..MaxElem

repr(item) == <<((item - 1) % MaxKey) + 1>>

TrueSetN(h) == n(h, Root)

\* has that asks for the item itself to be stored in the class
TrueSetHas_ItemStored(h, sorter, item) ==
    /\ has(h, sorter, Root, repr(item))
    /\ item \in Range(h[repr(item)].class.items)

TrueSetHas(h, sorter, item) == has(h, sorter, Root, repr(item))

\* set.add: the classifier's result is dropped and the set itself returned
TrueSetAdd(h, sorter, item, xTimes) ==
    [h |-> add(h, sorter, Root, repr(item), item, xTimes).h, self |-> TRUE]

TrueSetRemove(h, sorter, item, xTimes) == remove(h, sorter, Root, repr(item), xTimes)

TrueSetClear(h) == clear(h, Root)

\* [Symbol.iterator](): classifier.values()
TrueSetIterator(h) == values(h, Root)

\* set.reverse(): classifier.values(false); values() declares no parameter,
\* so the argument is not read
TrueSetReverse(h) == values(h, Root)

\* Queue.poll(first): the abstract method; it throws and returns nothing
QueuePoll(first) == [raised |-> TRUE, item |-> Undefined]

\* set.poll(first): TrueSet defines no poll, so the call runs Queue.poll and
\* the classifier is not touched
TrueSetPoll(h, first) == [h |-> h] @@ QueuePoll(first)

\* Nodes reachable from the root through keyToChild: what the program still
\* references once pruneIfEmpty has detached a node.
RECURSIVE Attached(_, _)
Attached(h, id) ==
    {id} \cup UNION {Attached(h, h[id].keyToChild[k]) : k \in DOMAIN h[id].keyToChild}

Collect(h) == [id \in Attached(h, Root) |-> h[id]]

\* ------------------------------------------------------------------- state
VARIABLES
    sorter,   \* the sorter the root was constructed with
    nodes,    \* the heap: node reference -> node record
    occ,      \* occurrences added minus removed, per key sequence
    last,     \* the last call: operation, arguments and result
    queue,    \* a SortedArray or an ArrayQueue used on its own
    view      \* the view handed out by queue.reverse(): <<>> when there is
              \* none, else <<the number of items when it was made>>

vars == <<sorter, nodes, occ, last, queue, view>>

\* self: the call returned its receiver (this); was: n() before the call;
\* start, end: the range given to logSearch; raised: the call threw
NoCall == [op |-> "new", keys |-> <<>>, item |-> Undefined, xTimes |-> 0,
           first |-> TRUE, ret |-> FALSE, out |-> <<>>, self |-> FALSE,
           was |-> 0, start |-> 0, end |-> 0, raised |-> FALSE]

Sorters == {UNIFORM("ASCENDING", "INSERTION"), UNIFORM("DESCENDING", "ASCENDING")}

\* the sum of f over the set S
RECURSIVE Sum(_, _)
Sum(f, S) == IF S = {} THEN 0
             ELSE LET x == CHOOSE y \in S : TRUE IN f[x] + Sum(f, S \ {x})

\* nin of the node at the path, 0 when there is none
NinAtPath(h, keys) == IF keys \in DOMAIN h THEN h[keys].nin ELSE 0

\* the number of values held by the classes of the heap
Held(h) == Sum([id \in DOMAIN h |-> Len(h[id].class.items)], DOMAIN h)

Init ==
    /\ sorter \in Sorters
    /\ nodes = (Root :> Classifier(sorter, <<>>, Undefined, -1))
    /\ occ = [p \in Paths |-> 0]
    /\ last = NoCall
    /\ queue = SortedArray("ASCENDING")
    /\ view = <<>>

\* clf.add(keys, item, xTimes) with a positive count; the guards keep the
\* number of occurrences, of stored values and of sorted keys within the bounds
Add(keys, item, xTimes) ==
    /\ n(nodes, Root) + xTimes <= MaxTotal
    /\ Held(nodes) < MaxHeld
    /\ \A id \in DOMAIN nodes : Len(nodes[id].sortedKeys.items) <= MaxKey + 1
    /\ LET r == add(nodes, sorter, Root, keys, item, xTimes)
       IN  /\ nodes' = Collect(r.h)
           /\ last' = [NoCall EXCEPT !.op = "add", !.keys = keys, !.item = item,
                                     !.xTimes = xTimes, !.ret = r.ret]
    /\ occ' = [occ EXCEPT ![keys] = @ + xTimes]
    /\ UNCHANGED <<sorter, queue, view>>

\* clf.remove(keys, xTimes)
Remove(keys, xTimes) ==
    /\ LET r == remove(nodes, sorter, Root, keys, xTimes)
       IN  /\ nodes' = Collect(r.h)
           /\ last' = [NoCall EXCEPT !.op = "remove", !.keys = keys,
                                     !.xTimes = xTimes, !.ret = r.ret]
    /\ occ' = [occ EXCEPT ![keys] = @ - MathMin(xTimes, @)]
    /\ UNCHANGED <<sorter, queue, view>>

\* [...clf.get(query, first)]
Get(query, first) ==
    /\ last' = [NoCall EXCEPT !.op = "get", !.keys = query, !.first = first,
                              !.out = get(nodes, Root, query, first),
                              !.raised = descendantsRaises(nodes, Root, query, first)]
    /\ UNCHANGED <<sorter, nodes, occ, queue, view>>

\* clf.peek(first)
Peek(first) ==
    /\ last' = [NoCall EXCEPT !.op = "peek", !.first = first,
                              !.out = peek(nodes, Root, first)]
    /\ UNCHANGED <<sorter, nodes, occ, queue, view>>

\* [...clf.keys()]
KeysOf ==
    /\ last' = [NoCall EXCEPT !.op = "keys", !.out = keyPaths(nodes, Root)]
    /\ UNCHANGED <<sorter, nodes, occ, queue, view>>

\* [...clf.entries()]
EntriesOf ==
    /\ last' = [NoCall EXCEPT !.op = "entries", !.out = entries(nodes, Root)]
    /\ UNCHANGED <<sorter, nodes, occ, queue, view>>

\* clf.clear() on the root
Clear ==
    /\ nodes' = Collect(clear(nodes, Root))
    /\ last' = [NoCall EXCEPT !.op = "clear", !.was = n(nodes, Root)]
    /\ occ' = [p \in Paths |-> 0]
    /\ UNCHANGED <<sorter, queue, view>>

\* set.clear() of a TrueSet wrapping the classifier
TsClear ==
    /\ nodes' = Collect(TrueSetClear(nodes))
    /\ last' = [NoCall EXCEPT !.op = "TrueSet.clear", !.was = TrueSetN(nodes)]
    /\ occ' = [p \in Paths |-> 0]
    /\ UNCHANGED <<sorter, queue, view>>

Next ==
    \/ \E keys \in Paths, item \in Items, xTimes \in 1..MaxTimes : Add(keys, item, xTimes)
    \/ \E keys \in Paths, xTimes \in (0..MaxTimes) \cup {Infinity} : Remove(keys, xTimes)
    \/ \E query \in Queries, first \in BOOLEAN : Get(query, first)
    \/ \E first \in BOOLEAN : Peek(first)
    \/ KeysOf
    \/ EntriesOf
    \/ Clear
    \/ TsClear

Spec == Init /\ [][Next]_vars

\* ------------------------------------------- keys that may be undefined
\* The classifier used with key sequences that may hold undefined, which
\* ORDER.ASCENDING does not order against the other keys.
InitUK ==
    /\ sorter = UNIFORM("ASCENDING", "INSERTION")
    /\ nodes = (Root :> Classifier(sorter, <<>>, Undefined, -1))
    /\ occ = [p \in Queries |-> 0]
    /\ last = NoCall
    /\ queue = SortedArray("ASCENDING")
    /\ view = <<>>

\* the key sequences of at most one key
ShortQueries == {q \in Queries : Len(q) <= 1}

NextUK ==
    \/ \E keys \in ShortQueries, item \in Items : Add(keys, item, 1)
    \/ \E keys \in ShortQueries : Remove(keys, Infinity)
    \/ \E first \in BOOLEAN : Get(<<>>, first)

SpecUK == InitUK /\ [][NextUK]_vars

\* ------------------------------------------- classes built from a flag
\* new Classifier(sorter) with SORTER.UNIFORM or SORTER.BY_DEPTH and a
\* boolean flag for the values
FlagSorters ==
    {UNIFORM("ASCENDING", "false"), UNIFORM("ASCENDING", "true"),
     BY_DEPTH(<<"ASCENDING">>, <<"false">>),
     BY_DEPTH(<<"ASCENDING", "DESCENDING">>, <<"true">>)}

InitFL ==
    /\ sorter \in FlagSorters
    /\ nodes = (Root :> Classifier(sorter, <<>>, Undefined, -1))
    /\ occ = [p \in Paths |-> 0]
    /\ last = NoCall
    /\ queue = SortedArray("ASCENDING")
    /\ view = <<>>

\* clf.with(keys, false).class.peek(first) on an existing node; last.out
\* keeps the items of the class
ClassPeek(keys, first) ==
    /\ keys \in DOMAIN nodes
    /\ last' = [NoCall EXCEPT !.op = "class.peek", !.keys = keys, !.first = first,
                              !.item = ArrayQueuePeek(nodes[keys].class, first),
                              !.out = nodes[keys].class.items]
    /\ UNCHANGED <<sorter, nodes, occ, queue, view>>

NextFL ==
    \/ \E keys \in Paths, item \in Items : Add(keys, item, 1)
    \/ \E keys \in Paths : Remove(keys, Infinity)
    \/ \E keys \in Paths, first \in BOOLEAN : ClassPeek(keys, first)

SpecFL == InitFL /\ [][NextFL]_vars

\* ------------------------------------------------- clear below the root
\* every node's nout is the sum of n() over its direct children
ChildSums(h) ==
    \A id \in DOMAIN h :
        h[id].nout = Sum([k \in DOMAIN h[id].keyToChild |-> n(h, h[id].keyToChild[k])],
                         DOMAIN h[id].keyToChild)

\* clf.with(keys).clear() on an existing node below the root; last.was is
\* root.n() and last.xTimes the node's n() before the call, last.ret tells
\* whether the counters agreed before the call
ClearAt(keys) ==
    /\ keys # <<>>
    /\ with(nodes, sorter, Root, keys, FALSE).node = <<keys>>
    /\ nodes' = Collect(clear(nodes, keys))
    /\ last' = [NoCall EXCEPT !.op = "clearAt", !.keys = keys,
                              !.was = n(nodes, Root), !.xTimes = n(nodes, keys),
                              !.ret = ChildSums(nodes)]
    /\ occ' = [p \in Paths |-> IF Len(keys) <= Len(p) /\ SubSeq(p, 1, Len(keys)) = keys
                                THEN 0 ELSE occ[p]]
    /\ UNCHANGED <<sorter, queue, view>>

NextCL ==
    \/ \E keys \in Paths, item \in Items, xTimes \in 1..MaxTimes : Add(keys, item, xTimes)
    \/ \E keys \in Paths, xTimes \in (1..MaxTimes) \cup {Infinity} : Remove(keys, xTimes)
    \/ \E keys \in Paths : ClearAt(keys)

SpecCL == Init /\ [][NextCL]_vars

\* ------------------------------------------------------------ unit counts
\* The default classifier used with add(keys, item) and remove(keys, xTimes):
\* every add counts one occurrence and stores one value.
InitUC ==
    /\ sorter = UNIFORM("ASCENDING", "INSERTION")
    /\ nodes = (Root :> Classifier(sorter, <<>>, Undefined, -1))
    /\ occ = [p \in Paths |-> 0]
    /\ last = NoCall
    /\ queue = SortedArray("ASCENDING")
    /\ view = <<>>

\* [...clf.values()]
ValuesOf ==
    /\ last' = [NoCall EXCEPT !.op = "values", !.out = values(nodes, Root)]
    /\ UNCHANGED <<sorter, nodes, occ, queue, view>>

NextUC ==
    \/ \E keys \in Paths, item \in Items : Add(keys, item, 1)
    \/ \E keys \in Paths, xTimes \in (1..MaxTimes) \cup {Infinity} : Remove(keys, xTimes)
    \/ ValuesOf

SpecUC == InitUC /\ [][NextUC]_vars

\* --------------------------------------------------- counts not positive
\* clf.add(keys, item, xTimes) with xTimes <= 0; the guards keep the counters
\* and the stored values within the bounds; last.self tells whether the path
\* existed and last.out keeps the items the terminal class held
AddDown(keys, item, xTimes) ==
    /\ Held(nodes) < MaxHeld
    /\ NinAtPath(nodes, keys) + xTimes >= 0 - MaxTimes
    /\ LET r == add(nodes, sorter, Root, keys, item, xTimes)
       IN  /\ nodes' = Collect(r.h)
           /\ last' = [NoCall EXCEPT !.op = "add", !.keys = keys, !.item = item,
                                     !.xTimes = xTimes, !.ret = r.ret,
                                     !.self = (keys \in DOMAIN nodes),
                                     !.out = IF keys \in DOMAIN nodes
                                             THEN nodes[keys].class.items ELSE <<>>]
    /\ occ' = IF keys \in DOMAIN nodes THEN [occ EXCEPT ![keys] = @ + xTimes] ELSE occ
    /\ UNCHANGED <<sorter, queue, view>>

NextNC ==
    \/ \E keys \in Paths, item \in Items : Add(keys, item, 1)
    \/ \E keys \in Paths, item \in Items, xTimes \in {0, -1} : AddDown(keys, item, xTimes)

SpecNC == Init /\ [][NextNC]_vars

\* ------------------------------------------- keys the comparator merges
\* new Classifier(SORTER.UNIFORM(ORDER.SINGULAR, ORDER.INSERTION)): the key
\* comparator returns 0 for keys that are distinct keys of the map
InitSK ==
    /\ sorter = UNIFORM("SINGULAR", "INSERTION")
    /\ nodes = (Root :> Classifier(sorter, <<>>, Undefined, -1))
    /\ occ = [p \in Paths |-> 0]
    /\ last = NoCall
    /\ queue = SortedArray("ASCENDING")
    /\ view = <<>>

NextSK ==
    \/ \E keys \in Paths, item \in Items, xTimes \in 1..MaxTimes : Add(keys, item, xTimes)
    \/ \E keys \in Paths, xTimes \in (1..MaxTimes) \cup {Infinity} : Remove(keys, xTimes)
    \/ \E first \in BOOLEAN : Get(<<>>, first)
    \/ KeysOf

SpecSK == InitSK /\ [][NextSK]_vars

\* ------------------------------------------------------ TrueSet as a set
\* new TrueSet(repr) over the default classifier, and new TrueSet(repr,
\* new Classifier(SORTER.UNIFORM(ORDER.ASCENDING, ORDER.SINGULAR)))
TrueSetSorters == {UNIFORM("ASCENDING", "INSERTION"), UNIFORM("ASCENDING", "SINGULAR")}

InitTS ==
    /\ sorter \in TrueSetSorters
    /\ nodes = (Root :> Classifier(sorter, <<>>, Undefined, -1))
    /\ occ = [p \in Paths |-> 0]
    /\ last = NoCall
    /\ queue = SortedArray("ASCENDING")
    /\ view = <<>>

\* set.add(item, xTimes); the guards keep the set within the bounds
TsAdd(item, xTimes) ==
    /\ TrueSetN(nodes) + xTimes <= MaxSet
    /\ Held(nodes) < MaxSet
    /\ LET r == TrueSetAdd(nodes, sorter, item, xTimes)
       IN  /\ nodes' = Collect(r.h)
           /\ last' = [NoCall EXCEPT !.op = "TrueSet.add", !.keys = repr(item),
                                     !.item = item, !.xTimes = xTimes,
                                     !.self = r.self, !.was = TrueSetN(nodes)]
    /\ occ' = [occ EXCEPT ![repr(item)] = @ + xTimes]
    /\ UNCHANGED <<sorter, queue, view>>

\* set.remove(item, xTimes)
TsRemove(item, xTimes) ==
    /\ LET r == TrueSetRemove(nodes, sorter, item, xTimes)
       IN  /\ nodes' = Collect(r.h)
           /\ last' = [NoCall EXCEPT !.op = "TrueSet.remove", !.keys = repr(item),
                                     !.item = item, !.xTimes = xTimes,
                                     !.ret = r.ret, !.was = TrueSetN(nodes)]
    /\ occ' = [occ EXCEPT ![repr(item)] = @ - MathMin(xTimes, @)]
    /\ UNCHANGED <<sorter, queue, view>>

\* [...set]
TsIterate ==
    /\ last' = [NoCall EXCEPT !.op = "TrueSet.iterator", !.out = TrueSetIterator(nodes),
                              !.was = TrueSetN(nodes)]
    /\ UNCHANGED <<sorter, nodes, occ, queue, view>>

\* [...set.reverse()]
TsReverse ==
    /\ last' = [NoCall EXCEPT !.op = "TrueSet.reverse", !.out = TrueSetReverse(nodes),
                              !.was = TrueSetN(nodes)]
    /\ UNCHANGED <<sorter, nodes, occ, queue, view>>

\* set.poll(first)
TsPoll(first) ==
    /\ LET r == TrueSetPoll(nodes, first)
       IN  /\ nodes' = Collect(r.h)
           /\ last' = [NoCall EXCEPT !.op = "TrueSet.poll", !.first = first,
                                     !.item = r.item, !.raised = r.raised,
                                     !.was = TrueSetN(nodes)]
    /\ UNCHANGED <<sorter, occ, queue, view>>

NextTS ==
    \/ \E item \in TrueSetItems, xTimes \in 1..MaxTimes : TsAdd(item, xTimes)
    \/ \E item \in TrueSetItems, xTimes \in (1..MaxTimes) \cup {Infinity} : TsRemove(item, xTimes)
    \/ TsClear
    \/ TsIterate
    \/ TsReverse
    \/ \E first \in BOOLEAN : TsPoll(first)

SpecTS == InitTS /\ [][NextTS]_vars

\* ------------------------------------------------ SortedArray on its own
Comparators == {"ASCENDING", "DESCENDING", "SINGULAR"}

\* the items given to a SortedArray: defined values
ArrayItems == 1..MaxElem

Lists == UNION {[1..k -> ArrayItems] : k \in 0..MaxLen}

\* new SortedArray(c, items); last.out keeps the list it was given
InitSA ==
    /\ \E c \in Comparators, items \in Lists :
          /\ queue = SortedArrayFrom(c, items)
          /\ last = [NoCall EXCEPT !.out = items]
    /\ sorter = UNIFORM("ASCENDING", "INSERTION")
    /\ nodes = (Root :> Classifier(sorter, <<>>, Undefined, -1))
    /\ occ = [p \in Paths |-> 0]
    /\ view = <<>>

\* queue.add(item); the guard keeps the array within the bounds
SaAdd(item) ==
    /\ Len(queue.items) <= MaxElem
    /\ LET r == SortedArrayAdd(queue, item)
       IN  /\ queue' = r.q
           /\ last' = [NoCall EXCEPT !.op = "SortedArray.add", !.item = item,
                                     !.ret = r.ret, !.was = Len(queue.items)]
    /\ UNCHANGED <<sorter, nodes, occ, view>>

\* queue.remove(item)
SaRemove(item) ==
    /\ LET r == SortedArrayRemove(queue, item)
       IN  /\ queue' = r.q
           /\ last' = [NoCall EXCEPT !.op = "SortedArray.remove", !.item = item,
                                     !.ret = r.ret, !.was = Len(queue.items)]
    /\ UNCHANGED <<sorter, nodes, occ, view>>

\* queue.has(item)
SaHas(item) ==
    /\ last' = [NoCall EXCEPT !.op = "SortedArray.has", !.item = item,
                              !.ret = SortedArrayHas(queue, item),
                              !.was = Len(queue.items)]
    /\ UNCHANGED <<sorter, nodes, occ, queue, view>>

\* queue.update(oldItem, newItem, upsert); last.xTimes keeps newItem,
\* last.first the upsert flag and last.out the items before the call
SaUpdate(oldItem, newItem, upsert) ==
    /\ LET r == CollectionUpdate(queue, oldItem, newItem, upsert)
       IN  /\ queue' = r.q
           /\ last' = [NoCall EXCEPT !.op = "SortedArray.update", !.item = oldItem,
                                     !.xTimes = newItem, !.first = upsert,
                                     !.ret = r.ret, !.out = queue.items,
                                     !.was = Len(queue.items)]
    /\ UNCHANGED <<sorter, nodes, occ, view>>

NextSA ==
    \/ \E item \in ArrayItems : SaAdd(item)
    \/ \E item \in ArrayItems : SaRemove(item)
    \/ \E item \in ArrayItems : SaHas(item)
    \/ \E oldItem \in ArrayItems, newItem \in ArrayItems, upsert \in BOOLEAN :
          SaUpdate(oldItem, newItem, upsert)

SpecSA == InitSA /\ [][NextSA]_vars

\* ------------------------------------------- SortedArray with undefined
\* new SortedArray(ORDER.ASCENDING, items) then used with items that may be
\* the value undefined
StorableItems == (1..MaxItem) \cup {Undefined}

InitSU ==
    /\ \E items \in Lists :
          /\ queue = SortedArrayFrom("ASCENDING", items)
          /\ last = [NoCall EXCEPT !.out = items]
    /\ sorter = UNIFORM("ASCENDING", "INSERTION")
    /\ nodes = (Root :> Classifier(sorter, <<>>, Undefined, -1))
    /\ occ = [p \in Paths |-> 0]
    /\ view = <<>>

NextSU ==
    \/ \E item \in StorableItems : SaAdd(item)
    \/ \E item \in StorableItems : SaRemove(item)
    \/ \E item \in StorableItems : SaHas(item)

SpecSU == InitSU /\ [][NextSU]_vars

\* ------------------------------------------------------ logSearch alone
\* the array is sorted under the comparator c
IsSorted(c, array) ==
    \A i \in 1..(Len(array) - 1) : comparator(c, array[i], array[i + 1]) <= 0

\* SortedArray.logSearch is static: queue holds the sorted array and the
\* comparator it is called with, equal items included
InitLS ==
    /\ \E c \in Comparators, array \in Lists :
          /\ IsSorted(c, array)
          /\ queue = [comparator |-> c, items |-> array]
    /\ last = NoCall
    /\ sorter = UNIFORM("ASCENDING", "INSERTION")
    /\ nodes = (Root :> Classifier(sorter, <<>>, Undefined, -1))
    /\ occ = [p \in Paths |-> 0]
    /\ view = <<>>

\* SortedArray.logSearch(item, array, comparator, start, end)
LogSearch(item, start, end) ==
    /\ start <= end
    /\ end <= Len(queue.items)
    /\ last' = [NoCall EXCEPT !.op = "logSearch", !.item = item,
                              !.start = start, !.end = end,
                              !.out = logSearch(item, queue.items, queue.comparator,
                                                start, end)]
    /\ UNCHANGED <<sorter, nodes, occ, queue, view>>

\* SortedArray.logSearch(item, array, comparator): start = 0, end = array.length
LogSearchAll(item) ==
    /\ last' = [NoCall EXCEPT !.op = "logSearch", !.item = item,
                              !.start = 0, !.end = Len(queue.items),
                              !.out = logSearch(item, queue.items, queue.comparator,
                                                0, Len(queue.items))]
    /\ UNCHANGED <<sorter, nodes, occ, queue, view>>

NextLS ==
    \/ \E item \in ArrayItems, start \in 0..MaxLen, end \in 0..MaxLen : LogSearch(item, start, end)
    \/ \E item \in ArrayItems : LogSearchAll(item)

SpecLS == InitLS /\ [][NextLS]_vars

\* ------------------------------------------------- ArrayQueue on its own
\* new ArrayQueue(fifo, items) with either flag, and new SortedArray(c, items)
\* for what it inherits from ArrayQueue; last.out keeps the list given
InitAQ ==
    /\ \E items \in Lists :
          /\ queue \in {ArrayQueueFrom(flag, items) : flag \in {"true", "false"}}
                     \cup {SortedArrayFrom(c, items) @@ [fifo |-> TRUE] : c \in Comparators}
          /\ last = [NoCall EXCEPT !.out = items]
    /\ sorter = UNIFORM("ASCENDING", "INSERTION")
    /\ nodes = (Root :> Classifier(sorter, <<>>, Undefined, -1))
    /\ occ = [p \in Paths |-> 0]
    /\ view = <<>>

\* queue.add(item); the guard keeps the array within the bound
AqAdd(item) ==
    /\ Len(queue.items) < MaxLen
    /\ LET r == ClassAdd(queue, item)
       IN  /\ queue' = r.q
           /\ last' = [NoCall EXCEPT !.op = "ArrayQueue.add", !.item = item,
                                     !.ret = r.ret, !.was = Len(queue.items)]
    /\ UNCHANGED <<sorter, nodes, occ, view>>

\* queue.has(item)
AqHas(item) ==
    /\ last' = [NoCall EXCEPT !.op = "ArrayQueue.has", !.item = item,
                              !.ret = QueueHas(queue, item),
                              !.was = Len(queue.items)]
    /\ UNCHANGED <<sorter, nodes, occ, queue, view>>

\* queue.remove(item)
AqRemove(item) ==
    /\ LET r == QueueRemove(queue, item)
       IN  /\ queue' = r.q
           /\ last' = [NoCall EXCEPT !.op = "ArrayQueue.remove", !.item = item,
                                     !.ret = r.ret, !.was = Len(queue.items)]
    /\ UNCHANGED <<sorter, nodes, occ, view>>

\* queue.peek(first)
AqPeek(first) ==
    /\ last' = [NoCall EXCEPT !.op = "ArrayQueue.peek", !.first = first,
                              !.out = ArrayQueuePeek(queue, first),
                              !.was = Len(queue.items)]
    /\ UNCHANGED <<sorter, nodes, occ, queue, view>>

\* queue.poll(first)
AqPoll(first) ==
    /\ LET r == ArrayQueuePoll(queue, first)
       IN  /\ queue' = r.q
           /\ last' = [NoCall EXCEPT !.op = "ArrayQueue.poll", !.first = first,
                                     !.out = r.ret, !.was = Len(queue.items)]
    /\ UNCHANGED <<sorter, nodes, occ, view>>

\* queue.select(n, first)
AqSelect(keep, first) ==
    /\ LET r == select(queue, keep, first)
       IN  /\ queue' = r.q
           /\ last' = [NoCall EXCEPT !.op = "Queue.select", !.xTimes = keep,
                                     !.first = first, !.out = r.ret,
                                     !.was = Len(queue.items)]
    /\ UNCHANGED <<sorter, nodes, occ, view>>

\* view = queue.reverse()
AqReverse ==
    /\ view' = <<Len(queue.items)>>
    /\ last' = [NoCall EXCEPT !.op = "ArrayQueue.reverse", !.was = Len(queue.items)]
    /\ UNCHANGED <<sorter, nodes, occ, queue>>

\* [...view]
AqIterateView ==
    /\ view # <<>>
    /\ last' = [NoCall EXCEPT !.op = "view.iterator",
                              !.out = ArrayQueueReverseView(queue, view),
                              !.was = Len(queue.items)]
    /\ UNCHANGED <<sorter, nodes, occ, queue, view>>

NextAQ ==
    \/ \E item \in ArrayItems : AqAdd(item)
    \/ \E item \in ArrayItems : AqHas(item)
    \/ \E item \in ArrayItems : AqRemove(item)
    \/ \E first \in BOOLEAN : AqPeek(first)
    \/ \E first \in BOOLEAN : AqPoll(first)
    \/ \E keep \in (0 - 1)..(MaxLen + 1), first \in BOOLEAN : AqSelect(keep, first)
    \/ AqReverse
    \/ AqIterateView

SpecAQ == InitAQ /\ [][NextAQ]_vars

\* ------------------------------------------------------------ vocabulary
IsPrefix(p, q) == Len(p) <= Len(q) /\ SubSeq(q, 1, Len(p)) = p

IsStrictPrefix(p, q) == IsPrefix(p, q) /\ p # q

NinAt(h, p) == IF p \in DOMAIN h THEN h[p].nin ELSE 0

NoutAt(h, p) == IF p \in DOMAIN h THEN h[p].nout ELSE 0

ItemsAt(h, p) == IF p \in DOMAIN h THEN h[p].class.items ELSE <<>>

\* occurrences added minus removed whose key sequence has p as a prefix
OccUnder(p) == Sum([q \in Paths |-> IF IsPrefix(p, q) THEN occ[q] ELSE 0], Paths)

\* how many times v occurs in the sequence s
Count(s, v) == Cardinality({i \in DOMAIN s : s[i] = v})

\* the query q admits the full key sequence p
Matches(p, q) ==
    /\ Len(p) >= Len(q)
    /\ \A i \in 1..Len(q) : q[i] = Undefined \/ p[i] = q[i]

\* ------------------------------------------------------------------ claims

\* C1: after every add and remove, every node of the tree has
\* nout = the sum of nin + nout over its direct children.
C1_NoutIsChildSum ==
    \A id \in DOMAIN nodes :
        nodes[id].nout =
            Sum([k \in DOMAIN nodes[id].keyToChild |->
                    n(nodes, nodes[id].keyToChild[k])],
                DOMAIN nodes[id].keyToChild)

C1_Witness ==
    /\ last.op = "remove"
    /\ \E id \in DOMAIN nodes \ {Root} :
          /\ Cardinality(DOMAIN nodes[id].keyToChild) = 1
          /\ nodes[id].nout = 1
          /\ nodes[id].nin = 0
          /\ nodes[Root].nout = 1

\* C2: for every node, nin + nout is the number of occurrences (added minus
\* removed) whose key sequence has the node's path as a prefix, and nin the
\* number whose key sequence is exactly the path; no occurrence lies outside
\* the tree, so root.n() is the total.
C2_CountsOccurrences ==
    /\ \A p \in DOMAIN nodes :
          /\ n(nodes, p) = OccUnder(p)
          /\ nodes[p].nin = occ[p]
    /\ \A p \in Paths \ DOMAIN nodes : OccUnder(p) = 0
    /\ n(nodes, Root) = Sum(occ, Paths)

C2_Witness ==
    /\ last.op = "remove"
    /\ last.xTimes = 1
    /\ last.keys \in DOMAIN nodes
    /\ Len(last.keys) = 1
    /\ nodes[last.keys].nin = 0
    /\ nodes[last.keys].nout = 1
    /\ n(nodes, Root) = 1

C5_AddEffect ==
    [][last'.op = "add" =>
        LET k == last'.keys
            c == last'.xTimes
            v == last'.item
        IN  /\ c > 0
            /\ DOMAIN nodes' = DOMAIN nodes \cup {p \in Paths : IsPrefix(p, k)}
            /\ \A p \in Paths :
                  /\ NinAt(nodes', p) = NinAt(nodes, p) + (IF p = k THEN c ELSE 0)
                  /\ NoutAt(nodes', p) =
                        NoutAt(nodes, p) + (IF IsStrictPrefix(p, k) THEN c ELSE 0)
                  /\ p # k => ItemsAt(nodes', p) = ItemsAt(nodes, p)
            /\ last'.ret = (Len(ItemsAt(nodes', k)) = Len(ItemsAt(nodes, k)) + 1)
            /\ last'.ret => Count(ItemsAt(nodes', k), v) = Count(ItemsAt(nodes, k), v) + 1
            /\ ~last'.ret =>
                  /\ ItemsAt(nodes', k) = ItemsAt(nodes, k)
                  /\ IsFunction(nodes'[k].class.comparator)
                  /\ \E x \in Range(ItemsAt(nodes, k)) :
                        comparator(nodes'[k].class.comparator, x, v) = 0
    ]_vars

C5_Witness ==
    /\ last.op = "add"
    /\ ~last.ret
    /\ Len(last.keys) = 2
    /\ nodes[last.keys].nin = 2
    /\ Len(nodes[last.keys].class.items) = 1
    /\ nodes[Root].nout = 2

C7_RemoveMissing ==
    [][(last'.op = "remove" /\ last'.keys \notin DOMAIN nodes) =>
        /\ ~last'.ret
        /\ nodes' = nodes
    ]_vars

C7_Witness ==
    /\ last.op = "remove"
    /\ ~last.ret
    /\ Len(last.keys) = 2
    /\ SubSeq(last.keys, 1, 1) \in DOMAIN nodes
    /\ last.keys \notin DOMAIN nodes

\* C8: the list produced by get([], false) is the reversal of the list
\* produced by get([], true).
C8_ReverseIsMirror ==
    (last.op = "get" /\ last.keys = <<>> /\ ~last.first)
        => last.out = Reverse(get(nodes, Root, <<>>, TRUE))

\* C9: get(query) yields exactly the values whose full key sequence p has
\* length >= length(query) and agrees with query at every position that is
\* not undefined: each value as often as the classes of those nodes hold it.
C9_GetYieldsMatching ==
    (last.op = "get" /\ last.first) =>
        \A v \in Items :
            Count(last.out, v) =
                Sum([p \in DOMAIN nodes |->
                        IF Matches(p, last.keys) THEN Count(nodes[p].class.items, v)
                        ELSE 0],
                    DOMAIN nodes)

\* the order of the forward traversal: a node before its descendants, and
\* sibling subtrees in the ascending order of the parent's key comparator
PreOrderBefore(p, q) ==
    \/ IsStrictPrefix(p, q)
    \/ \E d \in 1..MaxDepth :
          /\ d <= Len(p)
          /\ d <= Len(q)
          /\ SubSeq(p, 1, d - 1) = SubSeq(q, 1, d - 1)
          /\ comparator(nodes[SubSeq(p, 1, d - 1)].sortedKeys.comparator,
                        p[d], q[d]) < 0

\* C10: forward traversal (get([], true), values()) is depth-first pre-order:
\* it visits every non-root node once, a node before its descendants, sibling
\* subtrees in ascending key order, and yields each visited node's class in
\* the class's own order.
C10_PreOrder ==
    LET ds == descendants(nodes, Root, <<>>, TRUE, 0)
    IN  /\ Range(ds) = DOMAIN nodes \ {Root}
        /\ \A i, j \in DOMAIN ds : i < j => PreOrderBefore(ds[i], ds[j])
        /\ values(nodes, Root) = Flatten([i \in DOMAIN ds |-> nodes[ds[i]].class.items])
        /\ (last.op = "get" /\ last.keys = <<>> /\ last.first)
              => last.out = values(nodes, Root)

C10_Witness ==
    /\ last.op = "get"
    /\ last.keys = <<>>
    /\ last.first
    /\ Len(last.out) = 2
    /\ \E p, q \in DOMAIN nodes \ {Root} :
          /\ IsStrictPrefix(p, q)
          /\ nodes[p].class.items = <<last.out[1]>>
          /\ nodes[q].class.items = <<last.out[2]>>
          /\ last.out[1] # last.out[2]

\* C11: peek(true) returns the first value of the forward traversal and
\* peek(false) the last one whenever the traversal yields a value, also when
\* a node and one of its descendants both hold values; when it yields nothing
\* both return undefined.
C11_PeekFirstLast ==
    last.op = "peek" =>
        LET forward == values(nodes, Root)
        IN  IF forward = <<>> THEN last.out = Undefined
            ELSE IF last.first THEN last.out = forward[1]
            ELSE last.out = forward[Len(forward)]

\* the nodes holding occurrences of their own
Counted == {p \in DOMAIN nodes : nodes[p].nin > 0}

\* C12: keys() yields, in forward traversal order and once per node, the key
\* path of exactly the nodes with nin > 0; entries() yields one [path, value]
\* pair per value of the class of exactly those nodes; nodes with nin = 0
\* contribute nothing.
C12_KeysAndEntries ==
    /\ last.op = "keys" =>
          /\ Range(last.out) = Counted
          /\ Len(last.out) = Cardinality(Counted)
          /\ \A i, j \in DOMAIN last.out : i < j => PreOrderBefore(last.out[i], last.out[j])
    /\ last.op = "entries" =>
          /\ \A i \in DOMAIN last.out : last.out[i][1] \in Counted
          /\ \A p \in Counted :
                SelectSeq(last.out, LAMBDA e : e[1] = p) =
                    [j \in 1..Len(nodes[p].class.items) |-> <<p, nodes[p].class.items[j]>>]
          /\ \A i, j \in DOMAIN last.out :
                (i < j /\ last.out[i][1] # last.out[j][1])
                    => PreOrderBefore(last.out[i][1], last.out[j][1])

\* C13: after clear() on the root, in any reachable state, nin = 0, nout = 0,
\* sortedKeys and keyToChild are empty, the root's class is empty, has(k) is
\* false for every key sequence k and every traversal yields nothing; after
\* TrueSet.clear(), n() = 0 and has(item) is false for every item.
C13_ClearEmpties ==
    last.op \in {"clear", "TrueSet.clear"} =>
        /\ nodes[Root].nin = 0
        /\ nodes[Root].nout = 0
        /\ nodes[Root].sortedKeys.items = <<>>
        /\ nodes[Root].keyToChild = <<>>
        /\ nodes[Root].class.items = <<>>
        /\ \A k \in Paths : ~has(nodes, sorter, Root, k)
        /\ \A q \in Queries, first \in BOOLEAN : get(nodes, Root, q, first) = <<>>
        /\ values(nodes, Root) = <<>>
        /\ keyPaths(nodes, Root) = <<>>
        /\ entries(nodes, Root) = <<>>
        /\ TrueSetN(nodes) = 0
        /\ \A item \in TrueSetItems : ~TrueSetHas(nodes, sorter, item)

C13_Witness ==
    /\ last.op = "clear"
    /\ last.was > 1

\* C14: in a TrueSet whose classes use the constant-zero comparator
\* (ORDER.SINGULAR), adding a second item with the same representation keeps
\* only the first item in the set's values, and that add call returns false.
C14_SingularKeepsFirst ==
    [][(/\ last'.op = "TrueSet.add"
        /\ sorter[2] = "SINGULAR"
        /\ ItemsAt(nodes, last'.keys) # <<>>)
       => /\ ItemsAt(nodes', last'.keys) = ItemsAt(nodes, last'.keys)
          /\ TrueSetIterator(nodes') = TrueSetIterator(nodes)
          /\ ~last'.self
          /\ ~last'.ret]_vars

\* the part of C14 about the stored values alone
C14_ValuesKeepFirst ==
    [][(/\ last'.op = "TrueSet.add"
        /\ sorter[2] = "SINGULAR"
        /\ ItemsAt(nodes, last'.keys) # <<>>)
       => /\ ItemsAt(nodes', last'.keys) = ItemsAt(nodes, last'.keys)
          /\ TrueSetIterator(nodes') = TrueSetIterator(nodes)]_vars

\* the items of the list s whose representation is the key sequence k
OfClass(s, k) == SelectSeq(s, LAMBDA v : repr(v) = k)

\* C15: in a TrueSet with the default insertion-order storage, items of the
\* same representation coexist, and iteration / values() yields the items of
\* one class in the order they were added, equal items as separate entries.
C15_InsertionOrder ==
    [][(last'.op = "TrueSet.add" /\ sorter[2] = "INSERTION")
       => /\ ItemsAt(nodes', last'.keys) = Append(ItemsAt(nodes, last'.keys), last'.item)
          /\ OfClass(TrueSetIterator(nodes'), last'.keys)
                = Append(OfClass(TrueSetIterator(nodes), last'.keys), last'.item)
          /\ OfClass(values(nodes', Root), last'.keys)
                = Append(OfClass(values(nodes, Root), last'.keys), last'.item)
          /\ \A k \in Paths \ {last'.keys} :
                OfClass(TrueSetIterator(nodes'), k) = OfClass(TrueSetIterator(nodes), k)]_vars

C15_Witness ==
    /\ last.op = "TrueSet.add"
    /\ sorter[2] = "INSERTION"
    /\ LET s == TrueSetIterator(nodes)
       IN  /\ Len(s) = 3
           /\ s = ItemsAt(nodes, last.keys)
           /\ s[1] = s[3]
           /\ s[1] # s[2]

\* C16: has(x) is true iff at least one occurrence of the representation of
\* x is stored, whether or not x itself was added; remove(x, m) removes
\* min(m, occurrences of the class of x); remove(x) with the default count
\* makes has(y) false for every y of the representation of x and lowers n()
\* by the full count of the class.
C16_SetByRepresentation ==
    [][/\ \A x \in TrueSetItems : TrueSetHas(nodes', sorter, x) <=> occ'[repr(x)] > 0
       /\ last'.op = "TrueSet.remove" =>
             LET removed == MathMin(last'.xTimes, occ[last'.keys])
             IN  /\ TrueSetN(nodes') = TrueSetN(nodes) - removed
                 /\ NinAt(nodes', last'.keys) = occ[last'.keys] - removed
                 /\ last'.xTimes = Infinity =>
                       /\ removed = occ[last'.keys]
                       /\ \A y \in TrueSetItems :
                             repr(y) = last'.keys => ~TrueSetHas(nodes', sorter, y)]_vars

C16_Witness ==
    /\ last.op = "TrueSet.remove"
    /\ last.xTimes = Infinity
    /\ last.ret
    /\ last.was = 3
    /\ TrueSetN(nodes) = 1
    /\ \E x \in TrueSetItems :
          /\ TrueSetHas(nodes, sorter, x)
          /\ x \notin Range(TrueSetIterator(nodes))

\* C17: TrueSet.reverse() yields the stored items in the reverse of the order
\* of the forward iteration: list(reverse()) is the reversal of
\* list(iteration), in particular when the set holds different items at two
\* or more positions.
C17_ReverseIsReversal ==
    last.op = "TrueSet.reverse" => last.out = Reverse(TrueSetIterator(nodes))

\* C18: a SortedArray with a total-preorder comparator, created empty or
\* from an arbitrary unsorted list, holds after construction and after every
\* add and remove its items sorted (comparator(x, y) <= 0 for x next before
\* y) and no two items that compare equal.
C18_SortedAndUnique ==
    /\ IsSorted(queue.comparator, queue.items)
    /\ \A i, j \in DOMAIN queue.items :
          i # j => comparator(queue.comparator, queue.items[i], queue.items[j]) # 0

C18_Witness ==
    /\ last.op = "SortedArray.add"
    /\ last.ret
    /\ Len(queue.items) = 3
    /\ queue.items[2] = last.item

\* an item equal to item under the comparator is stored in q
Stored(q, item) ==
    \E i \in DOMAIN q.items : comparator(q.comparator, q.items[i], item) = 0

\* C19: a SortedArray is a set under the comparator's equivalence: add(item)
\* returns false and leaves the items unchanged iff an equal item is stored,
\* otherwise inserts it and returns true; remove(item) returns true and
\* deletes exactly the one equal item iff one is stored, otherwise returns
\* false with the items unchanged; has(item) is true iff an equal item is
\* stored.
C19_SetUnderComparator ==
    [][/\ last'.op = "SortedArray.add" =>
             IF Stored(queue, last'.item)
             THEN ~last'.ret /\ queue' = queue
             ELSE /\ last'.ret
                  /\ \E i \in 0..Len(queue.items) :
                        queue'.items = SpliceIn(queue.items, i, last'.item)
       /\ last'.op = "SortedArray.remove" =>
             IF Stored(queue, last'.item)
             THEN /\ last'.ret
                  /\ \E i \in DOMAIN queue.items :
                        /\ comparator(queue.comparator, queue.items[i], last'.item) = 0
                        /\ queue'.items = SpliceOut(queue.items, i - 1)
             ELSE ~last'.ret /\ queue' = queue
       /\ last'.op = "SortedArray.has" =>
             (last'.ret <=> Stored(queue, last'.item))]_vars

C19_Witness ==
    /\ last.op = "SortedArray.remove"
    /\ last.ret
    /\ last.was = 3
    /\ Len(queue.items) = 2
    /\ comparator(queue.comparator, queue.items[1], last.item) < 0
    /\ comparator(queue.comparator, last.item, queue.items[2]) < 0

\* the search of the last call found an element equal to the item exactly
\* when the range [start, end) holds one, and returned such an element
FoundIffInRange ==
    LET array == queue.items
        c == queue.comparator
    IN  /\ last.out[2] # Undefined <=>
              \E k \in (last.start + 1)..last.end : comparator(c, array[k], last.item) = 0
        /\ last.out[2] # Undefined =>
              /\ last.out[2] = array[last.out[1] + 1]
              /\ comparator(c, last.out[2], last.item) = 0

\* C20 as stated: logSearch(item, array, comparator, start, end) on a sorted
\* array returns an index i in [start, end] such that inserting item at i
\* keeps the array sorted (every element before i compares <= item, every
\* element from i on compares >= item), found or not, and returns the found
\* element iff some element in [start, end) compares equal to item.
C20_InsertionIndex ==
    last.op = "logSearch" =>
        LET array == queue.items
            c == queue.comparator
            i == last.out[1]
        IN  /\ last.start <= i
            /\ i <= last.end
            /\ \A k \in 1..i : comparator(c, array[k], last.item) <= 0
            /\ \A k \in (i + 1)..Len(array) : comparator(c, array[k], last.item) >= 0
            /\ IsSorted(c, SpliceIn(array, i, last.item))
            /\ FoundIffInRange

\* C20 amended: the index i is in [start, end], every element in [start, i)
\* compares <= item and every element in [i, end) compares >= item, found or
\* not; inserting item at i keeps the array sorted when the range is the
\* whole array; the found element is returned iff some element in
\* [start, end) compares equal to item.
C20_InsertionIndexInRange ==
    last.op = "logSearch" =>
        LET array == queue.items
            c == queue.comparator
            i == last.out[1]
        IN  /\ last.start <= i
            /\ i <= last.end
            /\ \A k \in (last.start + 1)..i : comparator(c, array[k], last.item) <= 0
            /\ \A k \in (i + 1)..last.end : comparator(c, array[k], last.item) >= 0
            /\ (last.start = 0 /\ last.end = Len(array))
                  => IsSorted(c, SpliceIn(array, i, last.item))
            /\ FoundIffInRange

C20_Witness ==
    /\ last.op = "logSearch"
    /\ last.start > 0
    /\ last.end > last.start
    /\ last.out[2] = Undefined
    /\ last.out[1] = last.start
    /\ comparator(queue.comparator, queue.items[last.start], last.item) > 0

\* C21 as stated: when the sorted array holds several elements that compare
\* equal to the target, the index logSearch returns is the lowest position
\* whose element compares equal to the target.
C21_LowestEqual ==
    (last.op = "logSearch" /\ last.out[2] # Undefined) =>
        \A k \in 1..last.out[1] :
            comparator(queue.comparator, queue.items[k], last.item) # 0

\* C21 amended: when an element of [start, end) compares equal to the
\* target, the index returned is in [start, end), its element compares equal
\* to the target and is the element returned; it is the first equal element
\* the bisection probes, not the lowest: when every element of the range
\* compares equal it is the midpoint (start + end) div 2.
C21_ProbedEqual ==
    (last.op = "logSearch" /\ last.out[2] # Undefined) =>
        LET array == queue.items
            c == queue.comparator
            i == last.out[1]
        IN  /\ last.start <= i
            /\ i < last.end
            /\ comparator(c, array[i + 1], last.item) = 0
            /\ last.out[2] = array[i + 1]
            /\ (\A k \in (last.start + 1)..last.end :
                    comparator(c, array[k], last.item) = 0)
                  => i = (last.start + last.end) \div 2

C21_Witness ==
    /\ last.op = "logSearch"
    /\ last.out[2] # Undefined
    /\ last.out[1] > last.start
    /\ comparator(queue.comparator, queue.items[last.out[1]], last.item) = 0
    /\ queue.comparator = "ASCENDING"

\* the item that first = TRUE / FALSE addresses: with fifo the oldest / the
\* newest stored item, without fifo the newest / the oldest
Addressed(q, first) ==
    IF q.items = <<>> THEN Undefined
    ELSE IF q.fifo = first THEN q.items[1]
    ELSE q.items[Len(q.items)]

\* C22: peek(first) and poll(first) of an ArrayQueue address the same
\* element, poll removes exactly that element and peek removes nothing; with
\* fifo = true, first = true is the oldest item (the front of the array) and
\* first = false the newest, with fifo = false the other way round; so
\* polling a queue seeded [1, 2, 3] gives 1, 2, 3 (FIFO) or 3, 2, 1 (LIFO).
C22_PeekPollSameEnd ==
    [][/\ last'.op = "ArrayQueue.peek" =>
             /\ queue' = queue
             /\ last'.out = Addressed(queue, last'.first)
       /\ last'.op = "ArrayQueue.poll" =>
             /\ last'.out = ArrayQueuePeek(queue, last'.first)
             /\ last'.out = Addressed(queue, last'.first)
             /\ queue.items # <<>> =>
                   queue'.items = IF queue.fifo = last'.first
                                  THEN Tail(queue.items)
                                  ELSE SubSeq(queue.items, 1, Len(queue.items) - 1)
             /\ queue.items = <<>> => queue' = queue]_vars

C22_Witness ==
    /\ last.op = "ArrayQueue.poll"
    /\ last.first
    /\ ~queue.fifo
    /\ last.was = 3
    /\ last.out = 3
    /\ queue.items = <<1, 2>>

\* C23: for an ArrayQueue in any state and any item, add(item) appends the
\* item at the end of the array, returns true and raises n() by one, also
\* when an identical item is stored; has(item) and remove(item) return false
\* and leave the items unchanged, also when the item is stored.
C23_NoEquivalence ==
    [][queue.comparator = "INSERTION" =>
          /\ last'.op = "ArrayQueue.add" =>
                /\ queue'.items = Append(queue.items, last'.item)
                /\ Len(queue'.items) = Len(queue.items) + 1
                /\ last'.ret
          /\ last'.op \in {"ArrayQueue.has", "ArrayQueue.remove"} =>
                /\ ~last'.ret
                /\ queue' = queue]_vars

C23_Witness ==
    /\ last.op = "ArrayQueue.remove"
    /\ queue.comparator = "INSERTION"
    /\ ~last.ret
    /\ Count(queue.items, last.item) = 2

\* C24: the view of ArrayQueue.reverse() yields the stored items from the
\* end of the array to its start whatever the fifo flag, reverse() and the
\* iteration leave the items and their order unchanged, and the view is
\* live: an item added after reverse() was called and before the view is
\* iterated is in the view.
C24_ReverseLiveView ==
    [][/\ last'.op \in {"ArrayQueue.reverse", "view.iterator"} => queue' = queue
       /\ last'.op = "view.iterator" => last'.out = Reverse(queue.items)]_vars

C24_Witness ==
    /\ last.op = "view.iterator"
    /\ ~queue.fifo
    /\ view # <<>>
    /\ Len(last.out) = view[1] + 2
    /\ last.out[1] # last.out[2]

\* the items in the order of extraction: the array, reversed without fifo
Logical(q) == IF q.fifo THEN q.items ELSE Reverse(q.items)

C26_DanglingKeyIsFatal ==
    (/\ last.op = "get"
     /\ \E d \in DOMAIN nodes : DanglingKeys(nodes, d) # {})
        => last.raised

\* C27: after any add, remove and clear on the root, with a key comparator
\* that is a total order on the keys used, every key of every node's
\* sortedKeys has a child in keyToChild and that child's key is the key
\* listed.
C27_NoDanglingKey ==
    \A id \in DOMAIN nodes :
        \A k \in Range(nodes[id].sortedKeys.items) :
            /\ k \in DOMAIN nodes[id].keyToChild
            /\ nodes[id].keyToChild[k] \in DOMAIN nodes
            /\ nodes[nodes[id].keyToChild[k]].key = k

C27_Witness ==
    /\ last.op = "remove"
    /\ last.ret
    /\ last.keys \notin DOMAIN nodes
    /\ Len(nodes[Root].sortedKeys.items) = 1
    /\ \E id \in DOMAIN nodes \ {Root} : Len(nodes[id].sortedKeys.items) = 1

\* C28: TrueSet exposes poll: poll(first) on a non-empty TrueSet removes and
\* returns the first (or the last) stored item and lowers n() by one; it
\* does not raise the abstract-method error of Queue.
C28_TrueSetPolls ==
    (last.op = "TrueSet.poll" /\ last.was > 0)
        => /\ ~last.raised
           /\ TrueSetN(nodes) = last.was - 1
           /\ last.item \in TrueSetItems

\* C29: in a Classifier built with SORTER.UNIFORM(keyComparator, flag) or
\* SORTER.BY_DEPTH with a boolean flag, the class of every node is an
\* ArrayQueue; with the flag false it is extracted first-in first-out (the
\* first item is the oldest), with the flag true last-in first-out (the
\* first item is the newest).
C29_FlagFalseIsFifo ==
    /\ \A id \in DOMAIN nodes : nodes[id].class.comparator = "INSERTION"
    /\ (last.op = "class.peek" /\ last.first /\ last.out # <<>>)
          => LET flag == sorterOf(sorter, Len(last.keys))[2]
             IN  /\ flag = "false" => last.item = last.out[1]
                 /\ flag = "true" => last.item = last.out[Len(last.out)]

\* C30: clear() on a node below the root (reached with with(keys)) keeps
\* the counters right: afterwards every ancestor's nout is still the sum of
\* n() over its direct children, and root.n() has gone down by exactly the
\* number of occurrences that were in the cleared subtree.
C30_ClearBelowRoot ==
    (last.op = "clearAt" /\ last.ret)
        => /\ ChildSums(nodes)
           /\ n(nodes, Root) = last.was - last.xTimes

\* C31: under the default insertion-order value policy and unit counts,
\* after any add(k, v) and remove(k, m), every node of the tree holds
\* exactly nin values in its class (class.n() = nin).
C31_ClassHoldsNin ==
    \A id \in DOMAIN nodes : Len(nodes[id].class.items) = nodes[id].nin

\* C32: after remove(k) has drained every occurrence at k while k keeps
\* descendants with occurrences (so the node stays in the tree), no value
\* added under exactly k is yielded any more: values() yields nothing from
\* the class of k, and its values are exactly the values of entries().
C32_DrainedNodeYieldsNothing ==
    (/\ last.op = "values"
     /\ \E k \in DOMAIN nodes \ {Root} : nodes[k].nin = 0 /\ nodes[k].nout > 0)
        => LET es == entries(nodes, Root)
           IN  /\ last.out = [i \in 1..Len(es) |-> es[i][2]]
               /\ \A k \in DOMAIN nodes \ {Root} :
                      (nodes[k].nin = 0 /\ nodes[k].nout > 0)
                          => Len(last.out) =
                                Len(values([nodes EXCEPT ![k].class.items = <<>>], Root))

C34_RootValueRetrievable ==
    /\ (last.op = "get" /\ last.keys = <<>> /\ nodes[Root].nin > 0)
          => \A v \in Range(nodes[Root].class.items) : v \in Range(last.out)
    /\ (last.op = "peek" /\ n(nodes, Root) > 0) => last.out # Undefined

\* C35: add(keys, item, count) with count <= 0 adds nothing: it never
\* creates a node (with the path missing it returns false and leaves the
\* whole tree unchanged) and, when the path exists, it does not insert the
\* item into the class of the terminal node.
C35_NonPositiveAddsNothing ==
    [][(last'.op = "add" /\ last'.xTimes <= 0)
          => /\ DOMAIN nodes' \subseteq DOMAIN nodes
             /\ ~last'.self => (nodes' = nodes /\ ~last'.ret)
             /\ (last'.self /\ last'.keys \in DOMAIN nodes')
                    => nodes'[last'.keys].class.items = last'.out]_vars

\* C36: Collection.update(oldItem, newItem, upsert) on a SortedArray is all
\* or nothing: either it returns true and the collection holds newItem in
\* place of oldItem (or newItem inserted by upsert), or it returns false and
\* the stored items are exactly what they were before the call, also when
\* newItem compares equal to another stored item.
C36_UpdateAllOrNothing ==
    last.op = "SortedArray.update"
        => IF last.ret THEN SortedArrayHas(queue, last.xTimes)
           ELSE queue.items = last.out

\* C37: for a TrueSet over the default classifier, after any add(item, k)
\* with a positive integer k and remove(item, m), iterating the set yields
\* as many items as n().
C37_IterationCountIsN ==
    (last.op = "TrueSet.iterator" /\ sorter[2] = "INSERTION")
        => Len(last.out) = last.was

\* every child registered in a keyToChild points back to its parent, carries
\* the key it is registered under and lies one level deeper
Linked(h) ==
    /\ h[Root].depth = 0
    /\ \A p \in DOMAIN h : \A k \in DOMAIN h[p].keyToChild :
          LET c == h[p].keyToChild[k]
          IN  /\ c \in DOMAIN h
              /\ h[c].parent = <<p>>
              /\ h[c].key = k
              /\ h[c].depth = h[p].depth + 1

\* every node no longer reachable from the root has parent = null and
\* depth = 0 and is referenced by no keyToChild
Detached(h) ==
    \A d \in DOMAIN h \ Attached(h, Root) :
        /\ h[d].parent = <<>>
        /\ h[d].depth = 0
        /\ \A p \in DOMAIN h : \A k \in DOMAIN h[p].keyToChild : h[p].keyToChild[k] # d

\* C38: after any add and remove, parent and child links agree: for every
\* node p and entry (k -> c) of p.keyToChild, c.parent = p, c.key = k and
\* c.depth = p.depth + 1, with the root at depth 0; and every node detached
\* by pruning has parent = null and depth = 0 and is referenced by no
\* keyToChild of the tree.
C38_LinksConsistent ==
    [][/\ Linked(nodes')
       /\ last'.op = "remove"
             => Detached(remove(nodes, sorter, Root, last'.keys, last'.xTimes).h)
       /\ last'.op = "add"
             => Detached(add(nodes, sorter, Root, last'.keys, last'.item, last'.xTimes).h)]_vars

C38_Witness ==
    /\ last.op = "remove"
    /\ last.ret
    /\ Len(last.keys) = 2
    /\ SubSeq(last.keys, 1, 1) \notin DOMAIN nodes
    /\ \E id \in DOMAIN nodes : nodes[id].depth = 2

\* C39: for any key comparator, also one that returns 0 for two keys that
\* are distinct keys of the map (ORDER.SINGULAR used for keys), every child
\* registered in a node's keyToChild has its key listed in the node's
\* sortedKeys, so every counted occurrence lies on a path that the
\* traversal (keys) visits.
C39_EveryChildListed ==
    /\ \A id \in DOMAIN nodes :
          DOMAIN nodes[id].keyToChild \subseteq Range(nodes[id].sortedKeys.items)
    /\ last.op = "keys"
          => \A id \in DOMAIN nodes \ {Root} :
                nodes[id].nin > 0 => id \in Range(last.out)

\* C40: SortedArray treats every storable value alike, the value undefined
\* included: with ORDER.ASCENDING, after add(undefined), has(undefined) is
\* true, a second add(undefined) returns false and inserts nothing, and
\* remove(undefined) returns true and deletes it.
C40_UndefinedIsStorable ==
    /\ (last.op = "SortedArray.has" /\ last.item = Undefined
            /\ Undefined \in Range(queue.items)) => last.ret
    /\ Count(queue.items, Undefined) <= 1
    /\ (last.op = "SortedArray.remove" /\ last.item = Undefined)
          => Undefined \notin Range(queue.items)
====
